---- MODULE Spec2Model ----
(***************************************************************************)
(* The interview simulator's server (src/server.js) as a state machine:    *)
(* one session of the express-session store, the requests a client makes   *)
(* on it, and the detached weakness analyses the submit-answer handler     *)
(* leaves running.                                                         *)
(*                                                                         *)
(* The session middleware (server.js 31-42) is configured without a        *)
(* `store`, so sessions live in express-session's MemoryStore: every       *)
(* request gets its own req.session, deserialised from the store when the  *)
(* request arrives, and written back as a whole when the response ends,    *)
(* provided the handler changed it (resave: false).  req.session.save()    *)
(* (server.js 300) writes the caller's own req.session, whole, over the    *)
(* stored session.                                                         *)
(*                                                                         *)
(* Text is a sequence of tokens, a token being a word or the blank " ".    *)
(* A JavaScript value is a record tagged by its type.                      *)
(***************************************************************************)
EXTENDS Integers, Sequences, FiniteSets, TLC

VARIABLES
  store,       \* the session as the store holds it
  now,         \* Date.now()
  req,         \* the request that is waiting on a completion call, or Idle
  tasks,       \* the detached weakness analyses still running
  ev,          \* what the last step did: the response sent, the call issued
  starts,      \* successful starts so far
  answerable,  \* a next-question succeeded, and no submit-answer or start since
  lastLeft,    \* the remaining time the last next-question computed, since the start
  timeUp       \* a submit-answer has returned time_up = true, and no start since

vars == <<store, now, req, tasks, ev, starts, answerable, lastLeft, timeUp>>

----------------------------------------------------------------------------
(* JavaScript values *)

Undef == [t |-> "undefined"]
Null == [t |-> "null"]
NaN == [t |-> "nan"]
Str(s) == [t |-> "str", v |-> s]
\* an integer number
Num(n) == [t |-> "num", v |-> n]
\* a number that is no integer, held in tenths: Frac(5) is 0.5
Frac(tenths) == [t |-> "frac", v |-> tenths]

\* !x
Falsy(x) ==
  \/ x.t \in {"undefined", "null", "nan"}
  \/ x.t = "str" /\ x.v = <<>>
  \/ x.t = "num" /\ x.v = 0

\* a || b
OrElse(a, b) == IF Falsy(a) THEN b ELSE a

Blank == " "

RECURSIVE TrimLeft(_)
TrimLeft(s) ==
  IF s # <<>> /\ Head(s) = Blank THEN TrimLeft(Tail(s)) ELSE s

RECURSIVE TrimRight(_)
TrimRight(s) ==
  IF s # <<>> /\ s[Len(s)] = Blank THEN TrimRight(SubSeq(s, 1, Len(s) - 1)) ELSE s

\* String.prototype.trim
Trim(s) == TrimRight(TrimLeft(s))

----------------------------------------------------------------------------
(* Bounds and inputs *)

\* Date.now() at the first request, and where the clock stops advancing
FirstNow == 1000
MaxNow == 62000
\* submit-answer is not tried on a longer history
MaxHist == 2
\* detached analyses outstanding at once
MaxTasks == 1
\* successful starts in one run
MaxStarts == 2
\* successful starts where no start may intervene
AnalysedStarts == 1
\* detached analyses outstanding at once, where two of them race
RaceTasks == 2
\* the same three for the long interview, whose history outgrows the last five
LongHist == 7
LongTasks == 1
LongStarts == 1

\* how far one step of the clock can go
Deltas == {61000}

\* req.body.type and req.body.resume
Types == {Undef, Str(<<>>), Str(<<"Backend", Blank, "Engineer">>)}
Resumes == {Undef, Str(<<"Five", Blank, "years", Blank, "of", Blank, "Go">>)}
\* req.body.duration: absent, "abc", "1", 0, -1, 0.5, 1, 2
Durations ==
  {Undef, Str(<<"abc">>), Str(<<"1">>), Num(0), Num(-1), Frac(5), Num(1), Num(2)}
\* req.body.answer
Answers ==
  {Undef, Str(<<>>), Str(<<Blank>>), Str(<<Blank, "a", Blank>>), Str(<<"a">>)}

LBrace == "{"
RBrace == "}"
Colon == ":"
Comma == ","

\* what the model replies to the question prompt
QuestionReplies ==
  { <<LBrace, "\"question\"", Colon, "\"Q1\"", RBrace>>,
    <<"Sure", Blank, LBrace, "\"question\"", Colon, "\"Q1\"", RBrace, Blank>>,
    <<"What", Blank, "next?">>,
    <<LBrace, "\"question\"", Colon, "\"\"", RBrace>>,
    <<LBrace, "\"question\"", Colon, RBrace>>,
    <<LBrace, "\"question\"", Colon, "\"Q1\"", RBrace, Blank, LBrace, RBrace>>,
    <<LBrace, "\"text\"", Colon, "\"Q1\"", RBrace>> }
\* what it replies to the weakness prompt
WeaknessReplies == { <<"vague">>, <<Blank, "thin", Blank>> }
\* what it replies to the summary prompt
SummaryReplies == { <<"Solid", Blank, "start.">>, <<Blank>> }

----------------------------------------------------------------------------
(* Numbers out of request values *)

\* the numerals the inputs use, with the number each denotes
NumeralValue == ("1" :> 1) @@ ("2" :> 2)

\* Number(x), the coercion isNaN and <= apply
ToNumber(x) ==
  CASE x.t = "num" -> x
    [] x.t = "frac" -> x
    [] x.t = "null" -> Num(0)
    [] x.t = "str" ->
         LET s == Trim(x.v) IN
         IF s = <<>> THEN Num(0)
         ELSE IF Len(s) = 1 /\ s[1] \in DOMAIN NumeralValue
              THEN Num(NumeralValue[s[1]])
              ELSE NaN
    [] OTHER -> NaN

IsNaN(x) == ToNumber(x).t = "nan"

\* x <= 0 (false when x coerces to NaN)
LeqZero(x) == LET n == ToNumber(x) IN n.t \in {"num", "frac"} /\ n.v <= 0

\* parseInt(x, 10): the integer the text of x starts with
ParseInt(x) ==
  CASE x.t = "num" -> x
    [] x.t = "frac" -> IF x.v >= 0 THEN Num(x.v \div 10) ELSE Num(-((-x.v) \div 10))
    [] x.t = "str" ->
         LET s == TrimLeft(x.v) IN
         IF s # <<>> /\ s[1] \in DOMAIN NumeralValue
         THEN Num(NumeralValue[s[1]])
         ELSE NaN
    [] OTHER -> NaN

\* a * b and a + b on numbers, NaN when either is
Times(a, k) == IF a.t = "num" THEN Num(a.v * k) ELSE NaN
Plus(a, b) == IF a.t = "num" /\ b.t = "num" THEN Num(a.v + b.v) ELSE NaN
\* a >= b (false when either is NaN)
Geq(a, b) == a.t = "num" /\ b.t = "num" /\ a.v >= b.v

----------------------------------------------------------------------------
(* extractJson *)

\* the string literals and other JSON values the replies use
LiteralValue ==
  ("\"Q1\"" :> Str(<<"Q1">>)) @@ ("\"Q2\"" :> Str(<<"Q2">>)) @@
  ("\"\"" :> Str(<<>>)) @@ ("\"Success\"" :> Str(<<"Success">>)) @@
  ("\"Fail\"" :> Str(<<"Fail">>)) @@ ("\"weak\"" :> Str(<<"weak">>)) @@
  ("85" :> Num(85)) @@ ("0" :> Num(0)) @@ ("null" :> Null)
\* the member names the replies use
KeyName ==
  ("\"question\"" :> "question") @@ ("\"status\"" :> "status") @@
  ("\"confidence\"" :> "confidence") @@ ("\"reason\"" :> "reason") @@
  ("\"text\"" :> "text")

\* {}
EmptyObject ==
  [question |-> Undef, status |-> Undef, confidence |-> Undef, reason |-> Undef,
   text |-> Undef]

Invalid == [t |-> "invalid"]

\* the members of an object, after the opening brace: name : value { , name : value }
RECURSIVE ParseMembers(_, _)
ParseMembers(toks, obj) ==
  IF Len(toks) < 3 THEN Invalid
  ELSE IF ~(toks[1] \in DOMAIN KeyName /\ toks[2] = Colon
            /\ toks[3] \in DOMAIN LiteralValue)
  THEN Invalid
  ELSE LET o == [obj EXCEPT ![KeyName[toks[1]]] = LiteralValue[toks[3]]] IN
       IF Len(toks) = 3 THEN o
       ELSE IF toks[4] = Comma THEN ParseMembers(SubSeq(toks, 5, Len(toks)), o)
       ELSE Invalid

\* JSON.parse of text that starts with { and ends with }
JsonParse(toks) ==
  LET inner == SubSeq(toks, 2, Len(toks) - 1) IN
  IF inner = <<>> THEN EmptyObject ELSE ParseMembers(inner, EmptyObject)

\* str.match(/\{[\s\S]*\}/): from the first { to the last } after it
MatchBraces(str) ==
  LET opens == {i \in 1..Len(str) : str[i] = LBrace}
      first == CHOOSE i \in opens : \A j \in opens : i <= j
      closes == {i \in 1..Len(str) : str[i] = RBrace /\ i > first}
      last == CHOOSE i \in closes : \A j \in closes : j <= i
  IN IF opens = {} \/ closes = {} THEN Invalid ELSE Str(SubSeq(str, first, last))

extractJson(str) ==
  LET match == MatchBraces(str) IN
  IF match = Invalid THEN EmptyObject
  ELSE LET parsed == JsonParse(match.v) IN
       IF parsed = Invalid THEN EmptyObject ELSE parsed

----------------------------------------------------------------------------
(* The session *)

Arr(seq) == [t |-> "array", v |-> seq]
Obj(type, resume) == [t |-> "obj", type |-> type, resume |-> resume]

PERSONALITIES ==
  << Str(<<"stern and no-nonsense">>), Str(<<"friendly but probing">>),
     Str(<<"dryly sarcastic">>), Str(<<"warm and encouraging">>),
     Str(<<"highly critical">>) >>

\* Math.random(), in hundredths: 0 and 0.99
RandomDraws == {0, 99}

\* PERSONALITIES[Math.floor(Math.random() * PERSONALITIES.length)], the
\* sequence counted from 1
getRandomPersonality(r) == PERSONALITIES[(r * Len(PERSONALITIES)) \div 100 + 1]

Analyzing == Str(<<"Analyzing...">>)
DefaultQuestion == Str(<<"Tell me about yourself.">>)

\* a session the middleware has just generated: no member set
NewSession ==
  [profile |-> Undef, duration_seconds |-> Undef, start_time |-> Undef,
   personality |-> Undef, history |-> Undef, current_question |-> Undef,
   current_question_started_at |-> Undef]

\* JSON.stringify of a member the store keeps: NaN becomes null
JsonMember(x) == IF x.t = "nan" THEN Null ELSE x

\* MemoryStore.set then MemoryStore.get: the session through JSON
ThroughJson(sess) == [f \in DOMAIN sess |-> JsonMember(sess[f])]

\* start_time + duration_seconds * 1000
EndTime(sess) == Plus(sess.start_time, Times(sess.duration_seconds, 1000))

\* Expired with > for >=: shows that C4 rests on the comparison
ExpiredStrictly(sess, t) ==
  LET endTime == EndTime(sess) IN endTime.t = "num" /\ t > endTime.v

\* now >= endTime
Expired(sess, t) == Geq(Num(t), EndTime(sess))

Max(a, b) == IF a >= b THEN a ELSE b

secondsLeft(sess, t) ==
  LET endTime == EndTime(sess) IN
  IF endTime.t = "num" THEN Num(Max(0, (endTime.v - t) \div 1000)) ELSE NaN

\* wordsCount: the words between the runs of blanks
wordsCount(s) ==
  LET str == IF Falsy(s) THEN <<>> ELSE s.v IN
  Cardinality({i \in 1..Len(str) : str[i] # Blank})

----------------------------------------------------------------------------
(* What a step leaves in ev *)

Idle == [op |-> "idle"]
NoCall == [kind |-> "none"]
NoLeft == [t |-> "none"]

\* a response sent to the client
Response(op, status, body) ==
  [op |-> op, status |-> status, body |-> body, call |-> NoCall]
\* a handler that now waits on a completion call: no response yet
Waiting(op, call) == [op |-> op, status |-> 0, body |-> Null, call |-> call]

Error(msg) == [error |-> msg]

----------------------------------------------------------------------------
(* POST /api/start *)

\* StartInvalid without the duration <= 0 test: shows that C7 rests on it
StartInvalidNoSignTest(body) ==
  \/ Falsy(body.type)
  \/ Falsy(body.resume)
  \/ Falsy(body.duration)
  \/ IsNaN(body.duration)

StartInvalid(body) ==
  \/ Falsy(body.type)
  \/ Falsy(body.resume)
  \/ Falsy(body.duration)
  \/ IsNaN(body.duration)
  \/ LeqZero(body.duration)

StartedSession(sess, body, r, t) ==
  [sess EXCEPT
     !.profile = Obj(body.type, body.resume),
     !.duration_seconds = Times(ParseInt(body.duration), 60),
     !.start_time = Num(t),
     !.personality = getRandomPersonality(r),
     !.history = Arr(<<>>),
     !.current_question = Null]

Start(body, r, maxStarts) ==
  /\ req = Idle
  /\ IF StartInvalid(body)
     THEN /\ ev' = Response("start", 400, Error("Invalid input"))
          /\ UNCHANGED <<store, starts, answerable, lastLeft, timeUp>>
     ELSE /\ starts < maxStarts
          /\ store' = ThroughJson(StartedSession(store, body, r, now))
          /\ ev' = Response("start", 200, [success |-> TRUE])
          /\ starts' = starts + 1
          /\ answerable' = FALSE
          /\ lastLeft' = NoLeft
          /\ timeUp' = FALSE
  /\ UNCHANGED <<now, req, tasks>>

----------------------------------------------------------------------------
(* GET /api/transcript *)

\* Transcript without the profile test: shows that C6 rests on it
TranscriptUnchecked ==
  /\ req = Idle
  /\ ev' = Response("transcript", 200,
             [profile |-> store.profile,
              personality |-> store.personality,
              startedAt |-> store.start_time,
              durationSeconds |-> store.duration_seconds,
              history |-> OrElse(store.history, Arr(<<>>))])
  /\ UNCHANGED <<store, now, req, tasks, starts, answerable, lastLeft, timeUp>>

Transcript ==
  /\ req = Idle
  /\ IF Falsy(store.profile)
     THEN ev' = Response("transcript", 400, Error("Interview not started"))
     ELSE ev' = Response("transcript", 200,
                  [profile |-> store.profile,
                   personality |-> store.personality,
                   startedAt |-> store.start_time,
                   durationSeconds |-> store.duration_seconds,
                   history |-> OrElse(store.history, Arr(<<>>))])
  /\ UNCHANGED <<store, now, req, tasks, starts, answerable, lastLeft, timeUp>>

----------------------------------------------------------------------------
(* The clock *)

Tick(d) ==
  /\ now + d <= MaxNow
  /\ now' = now + d
  /\ ev' = [op |-> "tick", status |-> 0, body |-> Null, call |-> NoCall]
  /\ UNCHANGED <<store, req, tasks, starts, answerable, lastLeft, timeUp>>

----------------------------------------------------------------------------
(* The prompts *)

\* Q: ... A: ... Weakness: ... of one history item
Exchange(h) ==
  [question |-> h.question, answer |-> h.answer,
   weakness |-> OrElse(h.weakness, Analyzing)]

\* history.map(...).join: the exchanges of the items, in order
Block(items) == [i \in 1..Len(items) |-> Exchange(items[i])]

\* history.slice(0, -5)
SliceOld(items) == SubSeq(items, 1, Len(items) - 5)
\* slice(-5) left out, every item kept raw: shows that C10 rests on the slice
SliceNothing(items) == items

\* history.slice(-5)
SliceLast5(items) == SubSeq(items, Max(1, Len(items) - 4), Len(items))

\* summarizeOld up to its completion call: the empty synopsis at once for an
\* empty history, otherwise the call it awaits
summarizeOld(items) ==
  IF Len(items) = 0
  THEN [done |-> TRUE, value |-> Str(<<>>), call |-> NoCall]
  ELSE [done |-> FALSE, value |-> Undef,
        call |-> [kind |-> "summarize", block |-> Block(items)]]

SystemMessage(sess, t) ==
  [role |-> "system", kind |-> "rules", personality |-> sess.personality,
   type |-> OrElse(sess.profile.type, Str(<<>>)),
   timeRemaining |-> secondsLeft(sess, t)]

ProfileMessage(sess) ==
  LET resumeText == OrElse(sess.profile.resume, Str(<<>>))
      typeText == OrElse(sess.profile.type, Str(<<>>))
  IN [role |-> "user", kind |-> "profile", resume |-> resumeText,
      profile_sparse |-> (wordsCount(resumeText) < 60 \/ wordsCount(typeText) < 2)]

SummaryMessage(oldSummary) ==
  [role |-> "user", kind |-> "summary", summary |-> oldSummary]

Last5Message(items) ==
  [role |-> "user", kind |-> "last5", block |-> Block(SliceLast5(items))]

AskMessage == [role |-> "user", kind |-> "ask"]

\* the messages from the last-five block on (server.js 224-235)
Closing(messages, items) ==
  IF Len(items) > 0
  THEN Append(Append(messages, Last5Message(items)), AskMessage)
  ELSE Append(messages, AskMessage)

GenerateCall(messages) == [kind |-> "generate", messages |-> messages]

----------------------------------------------------------------------------
(* GET /api/next-question *)

\* the handler up to its first await
NextQuestion ==
  /\ req = Idle
  /\ LET sess == store IN
     IF Falsy(sess.profile)
     THEN /\ ev' = Response("next-question", 400, Error("Interview not started"))
          /\ UNCHANGED <<req, lastLeft>>
     ELSE IF /\ Expired(sess, now)
             /\ Len(sess.history.v) > 0
             /\ Falsy(sess.current_question)
     THEN /\ ev' = Response("next-question", 200, [end |-> TRUE])
          /\ UNCHANGED <<req, lastLeft>>
     ELSE LET base == <<SystemMessage(sess, now), ProfileMessage(sess)>>
              items == sess.history.v
              old == summarizeOld(SliceOld(items))
          IN /\ lastLeft' = secondsLeft(sess, now)
             /\ IF Len(items) > 5 /\ ~old.done
                THEN /\ req' = [op |-> "next-question", pc |-> "summarize",
                                sess |-> sess, messages |-> base]
                     /\ ev' = Waiting("next-question", old.call)
                ELSE LET messages ==
                           Closing(IF Len(items) > 5
                                   THEN Append(base, SummaryMessage(old.value))
                                   ELSE base, items)
                     IN /\ req' = [op |-> "next-question", pc |-> "generate",
                                   sess |-> sess, messages |-> messages]
                        /\ ev' = Waiting("next-question", GenerateCall(messages))
  /\ UNCHANGED <<store, now, tasks, starts, answerable, timeUp>>

\* the summarizer's completion call returns content
SummaryReturns(content) ==
  /\ req # Idle
  /\ req.op = "next-question"
  /\ req.pc = "summarize"
  /\ LET oldSummary == Str(Trim(content))
         messages == Closing(Append(req.messages, SummaryMessage(oldSummary)),
                             req.sess.history.v)
     IN /\ req' = [req EXCEPT !.pc = "generate", !.messages = messages]
        /\ ev' = Waiting("next-question", GenerateCall(messages))
  /\ UNCHANGED <<store, now, tasks, starts, answerable, lastLeft, timeUp>>

\* what becomes of a request whose handler rejected outside any try: left
\* without a response (status 0), or answered 500 by the framework
Unhandled == {0, 500}

\* the summarizer's completion call fails: summarizeOld rejects, and the await
\* of server.js 217 stands outside the try of 237
SummaryFails(outcome) ==
  /\ req # Idle
  /\ req.op = "next-question"
  /\ req.pc = "summarize"
  /\ req' = Idle
  /\ ev' = Response("next-question", outcome, Error("unhandled"))
  /\ UNCHANGED <<store, now, tasks, starts, answerable, lastLeft, timeUp>>

\* QuestionReturns without the default of server.js 246: shows that C12 rests
\* on it
QuestionReturnsNoDefault(content) ==
  /\ req # Idle
  /\ req.op = "next-question"
  /\ req.pc = "generate"
  /\ LET raw == Trim(content)
         json == extractJson(raw)
         question == json.question
         sess == [req.sess EXCEPT !.current_question = question,
                                  !.current_question_started_at = Num(now)]
     IN /\ ev' = Response("next-question", 200, [question |-> question])
        /\ store' = ThroughJson(sess)
  /\ req' = Idle
  /\ answerable' = TRUE
  /\ UNCHANGED <<now, tasks, starts, lastLeft, timeUp>>

\* the question call returns content
QuestionReturns(content) ==
  /\ req # Idle
  /\ req.op = "next-question"
  /\ req.pc = "generate"
  /\ LET raw == Trim(content)
         json == extractJson(raw)
         question == OrElse(json.question, DefaultQuestion)
         sess == [req.sess EXCEPT !.current_question = question,
                                  !.current_question_started_at = Num(now)]
     IN /\ ev' = Response("next-question", 200, [question |-> question])
        /\ store' = ThroughJson(sess)
  /\ req' = Idle
  /\ answerable' = TRUE
  /\ UNCHANGED <<now, tasks, starts, lastLeft, timeUp>>

\* the question call fails
QuestionFails ==
  /\ req # Idle
  /\ req.op = "next-question"
  /\ req.pc = "generate"
  /\ req' = Idle
  /\ ev' = Response("next-question", 500, Error("Failed to generate question"))
  /\ UNCHANGED <<store, now, tasks, starts, answerable, lastLeft, timeUp>>

----------------------------------------------------------------------------
(* POST /api/submit-answer *)

\* SubmitInvalidState without the current_question test: shows that C2 rests
\* on it
SubmitInvalidStateNoQuestionTest(sess) == Falsy(sess.profile)

\* SubmitInvalidState that also turns a late answer away: shows that C5 rests
\* on the handler not looking at the clock
SubmitInvalidStateOrLate(sess) ==
  \/ Falsy(sess.profile)
  \/ Falsy(sess.current_question)
  \/ Geq(Num(now), EndTime(sess))

SubmitInvalidState(sess) == Falsy(sess.profile) \/ Falsy(sess.current_question)

AnswerMissing(answer) == Falsy(answer) \/ Trim(answer.v) = <<>>

NewItem(sess, answer, t) ==
  [question |-> sess.current_question,
   answer |-> Str(Trim(answer.v)),
   weakness |-> Analyzing,
   askedAt |-> OrElse(sess.current_question_started_at, Null),
   answeredAt |-> Num(t),
   source |-> Str(<<"speech_to_text">>)]

\* Answered without the clearing of server.js 307-308: shows that C1 rests
\* on it
AnsweredKeepsQuestion(sess, item) ==
  [sess EXCEPT !.history = Arr(Append(sess.history.v, item))]

\* req.session when the handler returns: the item pushed, the question cleared
Answered(sess, item) ==
  [sess EXCEPT !.history = Arr(Append(sess.history.v, item)),
               !.current_question = Null,
               !.current_question_started_at = Null]

\* the detached analysis: it keeps the handler's req.session and item
Analysis(sess, item) ==
  [sess |-> sess, item |-> item,
   call |-> [kind |-> "weakness", question |-> item.question, answer |-> item.answer]]

SubmitAnswer(answer, maxHist, maxTasks) ==
  /\ req = Idle
  /\ LET sess == store IN
     IF SubmitInvalidState(sess)
     THEN /\ ev' = Response("submit-answer", 400, Error("Invalid state"))
          /\ UNCHANGED <<store, tasks, answerable, timeUp>>
     ELSE IF AnswerMissing(answer)
     THEN /\ ev' = Response("submit-answer", 400, Error("Answer required"))
          /\ UNCHANGED <<store, tasks, answerable, timeUp>>
     ELSE LET item == NewItem(sess, answer, now)
              after == Answered(sess, item)
              task == Analysis(after, item)
          IN /\ Len(sess.history.v) < maxHist
             /\ Len(tasks) < maxTasks
             /\ tasks' = Append(tasks, task)
             /\ store' = ThroughJson(after)
             /\ ev' = [op |-> "submit-answer", status |-> 200,
                       body |-> [time_up |-> Expired(after, now)],
                       call |-> task.call]
             /\ answerable' = FALSE
             /\ timeUp' = (timeUp \/ Expired(after, now))
  /\ UNCHANGED <<now, req, starts, lastLeft>>

----------------------------------------------------------------------------
(* The detached weakness analysis (server.js 281-305) *)

Remove(seq, i) == SubSeq(seq, 1, i - 1) \o SubSeq(seq, i + 1, Len(seq))

\* findLastIndex for findIndex: shows that C15 rests on the first match
FindLastIndex(items, item) ==
  LET hits == {i \in 1..Len(items) :
                 items[i].question = item.question /\ items[i].answer = item.answer}
  IN IF hits = {} THEN 0 ELSE CHOOSE i \in hits : \A j \in hits : j <= i

\* history.findIndex(h => h.question === item.question && h.answer === item.answer),
\* 0 standing for -1
FindIndex(items, item) ==
  LET hits == {i \in 1..Len(items) :
                 items[i].question = item.question /\ items[i].answer = item.answer}
  IN IF hits = {} THEN 0 ELSE CHOOSE i \in hits : \A j \in hits : i <= j

\* the analysis' own req.session once the weakness is written into it
WithWeakness(sess, idx, weakness) ==
  [sess EXCEPT !.history = Arr([sess.history.v EXCEPT ![idx].weakness = weakness])]

\* the completion call of analysis i returns content
WeaknessReturns(i, content) ==
  /\ i \in 1..Len(tasks)
  /\ LET task == tasks[i]
         weakness == Str(Trim(content))
         idx == FindIndex(task.sess.history.v, task.item)
     IN IF idx # 0
        THEN store' = ThroughJson(WithWeakness(task.sess, idx, weakness))
        ELSE UNCHANGED store
  /\ tasks' = Remove(tasks, i)
  /\ ev' = [op |-> "weakness", status |-> 0, body |-> Null, call |-> NoCall,
            ok |-> TRUE, item |-> tasks[i].item]
  /\ UNCHANGED <<now, req, starts, answerable, lastLeft, timeUp>>

\* WeaknessFails that leaves the analysis running, as a retry would: shows
\* that C9 rests on the catch of server.js 302-304 ending it
WeaknessFailsRetries(i) ==
  /\ i \in 1..Len(tasks)
  /\ ev' = [op |-> "weakness", status |-> 0, body |-> Null, call |-> tasks[i].call,
            ok |-> FALSE, item |-> tasks[i].item]
  /\ UNCHANGED <<store, now, req, tasks, starts, answerable, lastLeft, timeUp>>

\* the completion call of analysis i fails: logged, nothing else
WeaknessFails(i) ==
  /\ i \in 1..Len(tasks)
  /\ tasks' = Remove(tasks, i)
  /\ ev' = [op |-> "weakness", status |-> 0, body |-> Null, call |-> NoCall,
            ok |-> FALSE, item |-> tasks[i].item]
  /\ UNCHANGED <<store, now, req, starts, answerable, lastLeft, timeUp>>

----------------------------------------------------------------------------
(* GET /api/result *)

ResultData(items) ==
  [q |-> [i \in 1..Len(items) |-> items[i].question],
   a |-> [i \in 1..Len(items) |-> items[i].answer],
   w |-> [i \in 1..Len(items) |-> OrElse(items[i].weakness, Str(<<"N/A">>))]]

\* what the model replies to the result prompt
ResultReplies ==
  { <<LBrace, "\"status\"", Colon, "\"Success\"", Comma, "\"confidence\"", Colon,
      "85", RBrace>>,
    <<LBrace, "\"status\"", Colon, "\"Fail\"", Comma, "\"confidence\"", Colon,
      "0", Comma, "\"reason\"", Colon, "\"weak\"", RBrace>>,
    <<"The", Blank, "candidate", Blank, "passed.">>,
    <<LBrace, "\"status\"", Colon, "\"Success\"", Comma, RBrace>> }

\* the handler up to its await
Result ==
  /\ req = Idle
  /\ LET sess == store IN
     IF Falsy(sess.history) \/ Len(sess.history.v) = 0
     THEN /\ ev' = Response("result", 400, Error("No interview data"))
          /\ UNCHANGED req
     ELSE /\ req' = [op |-> "result", pc |-> "result", sess |-> sess]
          /\ ev' = Waiting("result",
                     [kind |-> "result", data |-> ResultData(sess.history.v)])
  /\ UNCHANGED <<store, now, tasks, starts, answerable, lastLeft, timeUp>>

\* ?? that never takes its right side: shows that C13 rests on the default
CoalesceNothing(a, b) == a

\* result.confidence ?? 0
Coalesce(a, b) == IF a.t \in {"undefined", "null"} THEN b ELSE a

\* the result call returns content
ResultReturns(content) ==
  /\ req # Idle
  /\ req.op = "result"
  /\ LET result == extractJson(content) IN
     ev' = Response("result", 200,
             [status |-> OrElse(result.status, Str(<<"Fail">>)),
              confidence |-> Coalesce(result.confidence, Num(0)),
              reason |-> OrElse(result.reason, Str(<<>>)),
              history |-> req.sess.history])
  /\ req' = Idle
  /\ UNCHANGED <<store, now, tasks, starts, answerable, lastLeft, timeUp>>

\* the result call fails
ResultFails ==
  /\ req # Idle
  /\ req.op = "result"
  /\ req' = Idle
  /\ ev' = Response("result", 500, Error("Failed to compute result"))
  /\ UNCHANGED <<store, now, tasks, starts, answerable, lastLeft, timeUp>>

----------------------------------------------------------------------------
(* POST /api/tts *)

\* req.body.text
Texts == {Undef, Str(<<Blank>>), Str(<<Blank, "Hello", Blank>>)}

\* the longest input the speech call is given
MaxInput == 4096

\* String(req.body?.text ?? '').trim()
TextRaw(text) == IF text.t = "str" THEN Trim(text.v) ELSE <<>>

\* the speech call: the text cut to MaxInput, the instructions built on the
\* session's personality
SpeechCall(sess, textRaw) ==
  [kind |-> "speech",
   input |-> IF Len(textRaw) > MaxInput THEN SubSeq(textRaw, 1, MaxInput) ELSE textRaw,
   personality |-> OrElse(sess.personality, Str(<<"professional">>))]

\* the handler up to its await
Tts(text) ==
  /\ req = Idle
  /\ LET textRaw == TextRaw(text) IN
     IF textRaw = <<>>
     THEN /\ ev' = Response("tts", 400, Error("text required"))
          /\ UNCHANGED req
     ELSE /\ req' = [op |-> "tts", pc |-> "speech", sess |-> store]
          /\ ev' = Waiting("tts", SpeechCall(store, textRaw))
  /\ UNCHANGED <<store, now, tasks, starts, answerable, lastLeft, timeUp>>

\* the speech call returns the audio
TtsReturns ==
  /\ req # Idle
  /\ req.op = "tts"
  /\ req' = Idle
  /\ ev' = Response("tts", 200, [audio |-> "mp3"])
  /\ UNCHANGED <<store, now, tasks, starts, answerable, lastLeft, timeUp>>

\* the speech call fails
TtsFails ==
  /\ req # Idle
  /\ req.op = "tts"
  /\ req' = Idle
  /\ ev' = Response("tts", 500, Error("TTS failed"))
  /\ UNCHANGED <<store, now, tasks, starts, answerable, lastLeft, timeUp>>

----------------------------------------------------------------------------
(* The specification *)

Init ==
  /\ store = NewSession
  /\ now = FirstNow
  /\ req = Idle
  /\ tasks = <<>>
  /\ ev = [op |-> "init", status |-> 0, body |-> Null, call |-> NoCall]
  /\ starts = 0
  /\ answerable = FALSE
  /\ lastLeft = NoLeft
  /\ timeUp = FALSE

\* req.body of a start: a body with every member good, and the same body with
\* one member replaced
GoodBody ==
  [type |-> Str(<<"Backend", Blank, "Engineer">>),
   resume |-> Str(<<"Five", Blank, "years", Blank, "of", Blank, "Go">>),
   duration |-> Num(1)]
Bodies ==
  {[GoodBody EXCEPT !.type = x] : x \in Types}
    \cup {[GoodBody EXCEPT !.resume = x] : x \in Resumes}
    \cup {[GoodBody EXCEPT !.duration = x] : x \in Durations}

\* one reply, one answer and one body of each kind, for the specifications
\* that vary something else
OneQuestionReply == {<<LBrace, "\"question\"", Colon, "\"Q1\"", RBrace>>}
OneWeaknessReply == {<<Blank, "thin", Blank>>}
OneResultReply == {<<"The", Blank, "candidate", Blank, "passed.">>}
TwoAnswers == {Str(<<Blank, "a", Blank>>), Str(<<Blank>>)}
TwoBodies == {GoodBody, [GoodBody EXCEPT !.duration = Undef]}
OneDraw == {99}

\* the interview: every reply and every answer, on a one-minute interview
Next ==
  \/ \E body \in TwoBodies, r \in OneDraw : Start(body, r, MaxStarts)
  \/ NextQuestion
  \/ \E content \in QuestionReplies : QuestionReturns(content)
  \/ QuestionFails
  \/ \E answer \in Answers : SubmitAnswer(answer, MaxHist, MaxTasks)
  \/ \E i \in 1..MaxTasks, content \in WeaknessReplies : WeaknessReturns(i, content)
  \/ \E i \in 1..MaxTasks : WeaknessFails(i)
  \/ Transcript
  \/ Result
  \/ \E content \in ResultReplies : ResultReturns(content)
  \/ ResultFails
  \/ \E d \in Deltas : Tick(d)

Spec == Init /\ [][Next]_vars

\* the start: every body and both ends of the random draw
NextStart ==
  \/ \E body \in Bodies, r \in RandomDraws : Start(body, r, MaxStarts)
  \/ NextQuestion
  \/ \E content \in OneQuestionReply : QuestionReturns(content)
  \/ QuestionFails
  \/ \E answer \in TwoAnswers : SubmitAnswer(answer, MaxHist, MaxTasks)
  \/ \E i \in 1..MaxTasks, content \in OneWeaknessReply : WeaknessReturns(i, content)
  \/ \E i \in 1..MaxTasks : WeaknessFails(i)
  \/ Transcript
  \/ Result
  \/ \E content \in OneResultReply : ResultReturns(content)
  \/ ResultFails
  \/ \E d \in Deltas : Tick(d)

SpecStart == Init /\ [][NextStart]_vars

\* the timer: interviews of every accepted duration
TimedBodies == {[GoodBody EXCEPT !.duration = x] : x \in {Num(0), Frac(5), Num(1), Num(2)}}

NextTime ==
  \/ \E body \in TimedBodies, r \in OneDraw : Start(body, r, MaxStarts)
  \/ NextQuestion
  \/ \E content \in OneQuestionReply : QuestionReturns(content)
  \/ QuestionFails
  \/ \E answer \in TwoAnswers : SubmitAnswer(answer, MaxHist, MaxTasks)
  \/ \E i \in 1..MaxTasks, content \in OneWeaknessReply : WeaknessReturns(i, content)
  \/ \E i \in 1..MaxTasks : WeaknessFails(i)
  \/ Transcript
  \/ Result
  \/ \E content \in OneResultReply : ResultReturns(content)
  \/ ResultFails
  \/ \E d \in Deltas : Tick(d)

SpecTime == Init /\ [][NextTime]_vars

\* the long interview: a history that outgrows the last five
NextLong ==
  \/ \E body \in TwoBodies, r \in OneDraw : Start(body, r, LongStarts)
  \/ NextQuestion
  \/ \E content \in SummaryReplies : SummaryReturns(content)
  \/ \E outcome \in Unhandled : SummaryFails(outcome)
  \/ \E content \in OneQuestionReply : QuestionReturns(content)
  \/ QuestionFails
  \/ \E answer \in TwoAnswers : SubmitAnswer(answer, LongHist, LongTasks)
  \/ \E i \in 1..LongTasks, content \in OneWeaknessReply : WeaknessReturns(i, content)
  \/ \E i \in 1..LongTasks : WeaknessFails(i)
  \/ Transcript
  \/ Result
  \/ \E content \in ResultReplies : ResultReturns(content)
  \/ ResultFails
  \/ \E d \in Deltas : Tick(d)

SpecLong == Init /\ [][NextLong]_vars

\* the voice: the timed interviews with the speech requests among the others
NextVoice ==
  \/ \E body \in TimedBodies, r \in OneDraw : Start(body, r, MaxStarts)
  \/ NextQuestion
  \/ \E content \in OneQuestionReply : QuestionReturns(content)
  \/ QuestionFails
  \/ \E answer \in TwoAnswers : SubmitAnswer(answer, MaxHist, MaxTasks)
  \/ \E i \in 1..MaxTasks, content \in OneWeaknessReply : WeaknessReturns(i, content)
  \/ \E i \in 1..MaxTasks : WeaknessFails(i)
  \/ Transcript
  \/ Result
  \/ \E content \in OneResultReply : ResultReturns(content)
  \/ ResultFails
  \/ \E text \in Texts : Tts(text)
  \/ TtsReturns
  \/ TtsFails
  \/ \E d \in Deltas : Tick(d)

SpecVoice == Init /\ [][NextVoice]_vars

\* the race: interviews of one and two minutes, two analyses outstanding
RaceBodies == {[GoodBody EXCEPT !.duration = x] : x \in {Num(1), Num(2)}}

NextRace ==
  \/ \E body \in RaceBodies, r \in OneDraw : Start(body, r, MaxStarts)
  \/ NextQuestion
  \/ \E content \in OneQuestionReply : QuestionReturns(content)
  \/ QuestionFails
  \/ \E answer \in TwoAnswers : SubmitAnswer(answer, MaxHist, RaceTasks)
  \/ \E i \in 1..RaceTasks, content \in OneWeaknessReply : WeaknessReturns(i, content)
  \/ \E i \in 1..RaceTasks : WeaknessFails(i)
  \/ Transcript
  \/ Result
  \/ \E content \in OneResultReply : ResultReturns(content)
  \/ ResultFails
  \/ \E d \in Deltas : Tick(d)

SpecRace == Init /\ [][NextRace]_vars

\* one interview whose weakness calls all return
NextAnalysed ==
  \/ \E body \in TwoBodies, r \in OneDraw : Start(body, r, AnalysedStarts)
  \/ NextQuestion
  \/ \E content \in QuestionReplies : QuestionReturns(content)
  \/ QuestionFails
  \/ \E answer \in Answers : SubmitAnswer(answer, MaxHist, MaxTasks)
  \/ \E i \in 1..MaxTasks, content \in WeaknessReplies : WeaknessReturns(i, content)
  \/ Transcript
  \/ Result
  \/ \E content \in OneResultReply : ResultReturns(content)
  \/ ResultFails
  \/ \E d \in Deltas : Tick(d)

SpecAnalysed == Init /\ [][NextAnalysed]_vars

----------------------------------------------------------------------------
(* The claims *)

\* what the claims call the session's parts
HasQuestion(sess) == sess.current_question.t \notin {"undefined", "null"}
Started(sess) == sess.profile.t = "obj"
Hist(sess) == IF sess.history.t = "array" THEN sess.history.v ELSE <<>>
\* now >= start_time + duration_seconds * 1000
TimeIsUp(sess, t) ==
  /\ sess.start_time.t = "num"
  /\ sess.duration_seconds.t = "num"
  /\ t >= sess.start_time.v + sess.duration_seconds.v * 1000
\* an answer with something in it besides blanks
NonBlank(answer) == answer.t = "str" /\ \E i \in 1..Len(answer.v) : answer.v[i] # Blank
\* this step is a next-question request arriving
NextQuestionArrives == req = Idle /\ ev'.op = "next-question"
Succeeded(e, op) == e.op = op /\ e.status = 200

\* C1: current_question is non-null only if a next-question has succeeded
\* and no successful submit-answer and no start has happened since; every
\* successful submit-answer leaves current_question null.
C1_QuestionOnlyWhileAnswerable ==
  /\ HasQuestion(store) => answerable
  /\ Succeeded(ev, "submit-answer") => ~HasQuestion(store)

C1_Witness ==
  /\ Succeeded(ev, "submit-answer")
  /\ store.current_question = Null
  /\ Len(Hist(store)) = 1

\* C2: a submit-answer made when no next-question has succeeded since the
\* last successful submit-answer fails with 400 'Invalid state' and leaves the
\* history and every other session field unchanged.
C2_SecondSubmitInvalidState ==
  [][(ev'.op = "submit-answer" /\ ~answerable) =>
       /\ ev'.status = 400
       /\ ev'.body = Error("Invalid state")
       /\ ev'.call = NoCall
       /\ store' = store
       /\ tasks' = tasks]_vars

C2_Witness ==
  /\ ev.op = "submit-answer"
  /\ ev.status = 400
  /\ ev.body = Error("Invalid state")
  /\ ~answerable
  /\ Started(store)
  /\ Len(Hist(store)) > 0

\* the question and answer of every item of a history, in order
Exchanges(items) ==
  [i \in 1..Len(items) |-> [question |-> items[i].question, answer |-> items[i].answer]]

\* C3: history is append-only between starts: a successful submit-answer
\* appends exactly one item, whose question is the current_question of that
\* moment and whose answer is the trimmed submitted answer, and no other step
\* but a successful start changes the history's length or the question or
\* answer of an item.
C3_HistoryAppendOnly ==
  [][IF Succeeded(ev', "submit-answer")
     THEN \E answer \in Answers :
            /\ SubmitAnswer(answer, MaxHist, MaxTasks)
            /\ Exchanges(Hist(store')) =
                 Append(Exchanges(Hist(store)),
                        [question |-> store.current_question,
                         answer |-> Str(Trim(answer.v))])
     ELSE IF Succeeded(ev', "start")
     THEN TRUE
     ELSE Exchanges(Hist(store')) = Exchanges(Hist(store))]_vars

\* C4: when the time is up, no question is pending and the history is
\* non-empty, next-question responds {end: true}, issues no completion call
\* and changes no session field.
C4_EndWhenTimeIsUp ==
  [][(/\ NextQuestionArrives
      /\ Started(store)
      /\ TimeIsUp(store, now)
      /\ ~HasQuestion(store)
      /\ Len(Hist(store)) > 0) =>
       /\ ev' = Response("next-question", 200, [end |-> TRUE])
       /\ req' = Idle
       /\ store' = store
       /\ tasks' = tasks]_vars

\* a one-minute interview, 61 seconds after its start
C4_Witness ==
  /\ ev = Response("next-question", 200, [end |-> TRUE])
  /\ store.duration_seconds = Num(60)
  /\ now = store.start_time.v + 61000
  /\ Len(Hist(store)) > 0

NotStartedError(op) ==
  CASE op = "next-question" -> Error("Interview not started")
    [] op = "transcript" -> Error("Interview not started")
    [] op = "submit-answer" -> Error("Invalid state")
    [] op = "result" -> Error("No interview data")

\* C6: on a session that was never started, next-question, transcript,
\* submit-answer and result fail with their 400 error; none issues a
\* completion call and none moves the session out of NotStarted.
C6_NothingBeforeStart ==
  [][(/\ starts = 0
      /\ ev'.op \in {"next-question", "transcript", "submit-answer", "result"}) =>
       /\ ev'.status = 400
       /\ ev'.body = NotStartedError(ev'.op)
       /\ ev'.call = NoCall
       /\ req' = Idle
       /\ tasks' = <<>>
       /\ store' = store
       /\ ~Started(store')]_vars

C6_Witness ==
  /\ starts = 0
  /\ ev = Response("result", 400, Error("No interview data"))
  /\ ~Started(store)

\* a duration that is no number: text that is no numeral
NonNumeric(x) == x.t = "str" /\ Trim(x.v) # <<>> /\ Trim(x.v) \notin {<<"1">>, <<"2">>}
\* a duration that is a number <= 0
NotPositive(x) == x.t \in {"num", "frac"} /\ x.v <= 0

\* what the claim calls an invalid start
MissingOrBad(body) ==
  \/ body.type = Undef
  \/ body.resume = Undef
  \/ body.duration = Undef
  \/ NonNumeric(body.duration)
  \/ NotPositive(body.duration)

\* C7: a start with a missing type, a missing resume, or a duration that is
\* missing, non-numeric or <= 0 fails with 400 'Invalid input' and leaves the
\* session as it was; a start that succeeds sets start_time = now, an empty
\* history and a null current_question, and a personality of the five.
C7_StartValidates ==
  [][ev'.op = "start" =>
       \A body \in Bodies, r \in RandomDraws :
         Start(body, r, MaxStarts) =>
           /\ MissingOrBad(body) =>
                /\ ev' = Response("start", 400, Error("Invalid input"))
                /\ store' = store
                /\ tasks' = tasks
           /\ ev'.status = 200 =>
                /\ store'.profile = Obj(body.type, body.resume)
                /\ store'.start_time = Num(now)
                /\ store'.history = Arr(<<>>)
                /\ store'.current_question = Null
                /\ \E i \in 1..5 : store'.personality = PERSONALITIES[i]
           /\ ev'.status \in {200, 400}]_vars

\* an invalid start on an interview with a history and a pending question
C7_Witness ==
  /\ ev = Response("start", 400, Error("Invalid input"))
  /\ Started(store)
  /\ HasQuestion(store)
  /\ Len(Hist(store)) > 0

\* C8: between two starts, with a clock that never goes back, the remaining
\* time a next-question computes is never negative and never larger than the
\* one the next-question before it computed; once the time is up it is 0.
C8_RemainingNeverGrows ==
  [][(NextQuestionArrives /\ req' # Idle) =>
       /\ lastLeft'.t = "num"
       /\ lastLeft'.v >= 0
       /\ lastLeft.t = "num" => lastLeft'.v <= lastLeft.v
       /\ TimeIsUp(store, now) => lastLeft'.v = 0]_vars

LastItem(sess) == Hist(sess)[Len(Hist(sess))]

\* C9: the submit-answer response is sent with the analysis outstanding,
\* current_question cleared and the item in the history; an analysis that
\* fails leaves the session as it was, sends the client nothing, issues no
\* call and is not tried again.
C9_AnalysisDetached ==
  [][/\ Succeeded(ev', "submit-answer") =>
          /\ Len(tasks') = Len(tasks) + 1
          /\ tasks'[Len(tasks')].item = LastItem(store')
          /\ LastItem(store').weakness = Analyzing
          /\ ~HasQuestion(store')
     /\ (ev'.op = "weakness" /\ ~ev'.ok) =>
          /\ ev'.status = 0
          /\ ev'.call = NoCall
          /\ store' = store
          /\ req' = req
          /\ Len(tasks') = Len(tasks) - 1
          /\ \A i \in 1..Len(tasks') : \E j \in 1..Len(tasks) : tasks'[i] = tasks[j]]_vars

\* an analysis failed after its response was sent: the item keeps the placeholder
C9_Witness ==
  /\ ev.op = "weakness"
  /\ ~ev.ok
  /\ tasks = <<>>
  /\ \E i \in 1..Len(Hist(store)) :
       /\ Hist(store)[i].question = ev.item.question
       /\ Hist(store)[i].answer = ev.item.answer
       /\ Hist(store)[i].weakness = Analyzing

\* the messages of one kind among the messages of a prompt
OfKind(messages, kind) == {i \in 1..Len(messages) : messages[i].kind = kind}

Min(a, b) == IF a <= b THEN a ELSE b

\* the raw entries of a question prompt are the last min(n, 5) items, and it
\* carries one summary message when n > 5, none otherwise
Compacted(messages, items) ==
  LET n == Len(items)
      k == Min(n, 5)
      raw == OfKind(messages, "last5")
  IN /\ Cardinality(raw) = IF n = 0 THEN 0 ELSE 1
     /\ \A i \in raw :
          /\ Len(messages[i].block) = k
          /\ \A j \in 1..k :
               /\ messages[i].block[j].question = items[n - k + j].question
               /\ messages[i].block[j].answer = items[n - k + j].answer
     /\ Cardinality(OfKind(messages, "summary")) = IF n > 5 THEN 1 ELSE 0

C11_FailuresCaught ==
  [][(req # Idle /\ req' = Idle) => ev'.status \in {200, 500}]_vars

\* the replies that are no JSON object, or an object without a question
NoQuestionReplies ==
  { <<"What", Blank, "next?">>,
    <<LBrace, "\"question\"", Colon, RBrace>>,
    <<LBrace, "\"question\"", Colon, "\"Q1\"", RBrace, Blank, LBrace, RBrace>>,
    <<LBrace, "\"text\"", Colon, "\"Q1\"", RBrace>> }

\* the question call of a next-question request returns in this step
QuestionArrives == req # Idle /\ req.op = "next-question" /\ Succeeded(ev', "next-question")

\* C12 as stated: every next-question made on a started interview before its
\* time is up returns a non-empty question.
C12_AlwaysAQuestion ==
  [][(/\ req # Idle
      /\ req.op = "next-question"
      /\ req' = Idle
      /\ ~TimeIsUp(req.sess, now)) =>
       /\ ev'.status = 200
       /\ ~Falsy(ev'.body.question)]_vars

\* C12, amended: every next-question whose question call returns gives the
\* client a non-empty question, which is the one stored as current_question;
\* it is the default "Tell me about yourself." when the reply is no JSON
\* object or has no question.
C12_QuestionOrDefault ==
  [][QuestionArrives =>
       /\ ~Falsy(ev'.body.question)
       /\ store'.current_question = ev'.body.question
       /\ \A content \in NoQuestionReplies \cap QuestionReplies :
            QuestionReturns(content) =>
              /\ ev'.body.question = Str(<<"Tell me about yourself.">>)
              /\ store'.current_question = Str(<<"Tell me about yourself.">>)]_vars

\* the default question asked and stored, before the time is up
C12_Witness ==
  /\ ev = Response("next-question", 200, [question |-> Str(<<"Tell me about yourself.">>)])
  /\ store.current_question = Str(<<"Tell me about yourself.">>)
  /\ ~TimeIsUp(store, now)

\* the result replies that are no JSON object
MalformedResultReplies ==
  { <<"The", Blank, "candidate", Blank, "passed.">>,
    <<LBrace, "\"status\"", Colon, "\"Success\"", Comma, RBrace>> }

\* C13: a result request on an empty or absent history fails with 400 'No
\* interview data' and no completion call; on a non-empty history with a
\* malformed reply it responds status "Fail", confidence 0, reason ""; the
\* request never changes the session, and the history it returns is the
\* history of the session it was made on.
C13_ResultFailsClosed ==
  [][/\ (req = Idle /\ ev'.op = "result") =>
          /\ store' = store
          /\ tasks' = tasks
          /\ IF Hist(store) = <<>>
             THEN /\ ev' = Response("result", 400, Error("No interview data"))
                  /\ req' = Idle
             ELSE /\ ev'.status = 0
                  /\ ev'.call.kind = "result"
     /\ (req # Idle /\ req.op = "result" /\ req' = Idle) =>
          /\ store' = store
          /\ tasks' = tasks
          /\ Succeeded(ev', "result") =>
               /\ ev'.body.history = req.sess.history
               /\ req.sess.history = store.history => ev'.body.history = store'.history
               /\ \A content \in MalformedResultReplies \cap ResultReplies :
                    ResultReturns(content) =>
                      /\ ev'.body.status = Str(<<"Fail">>)
                      /\ ev'.body.confidence = Num(0)
                      /\ ev'.body.reason = Str(<<>>)]_vars

\* a malformed reply on a history of one item
C13_Witness ==
  /\ Succeeded(ev, "result")
  /\ ev.body.status = Str(<<"Fail">>)
  /\ ev.body.confidence = Num(0)
  /\ ev.body.reason = Str(<<>>)
  /\ Len(ev.body.history.v) = 1
  /\ ev.body.history = store.history

\* what a start sets and nothing else may touch
Profile(sess) ==
  [profile |-> sess.profile, personality |-> sess.personality,
   start_time |-> sess.start_time, duration_seconds |-> sess.duration_seconds]

\* C14: once a start has succeeded, nothing but another successful start
\* changes profile, personality, start_time or duration_seconds (no
\* next-question, submit-answer, transcript, result or tts request, and no
\* completion of a weakness analysis), and transcript reports these values.
C14_ProfileImmutable ==
  [][(starts > 0 /\ ~Succeeded(ev', "start")) =>
       /\ Profile(store') = Profile(store)
       /\ Succeeded(ev', "transcript") =>
            /\ ev'.body.profile = store.profile
            /\ ev'.body.personality = store.personality
            /\ ev'.body.startedAt = store.start_time
            /\ ev'.body.durationSeconds = store.duration_seconds]_vars

\* the items of a history with the question and the answer of item
Matches(items, item) ==
  {i \in 1..Len(items) :
     items[i].question = item.question /\ items[i].answer = item.answer}

\* C15: a weakness analysis that completes successfully overwrites the
\* weakness of the first item, of the history its submit-answer holds, whose
\* question and answer equal those of the submitted item; of two items with
\* the same question and answer the first is updated and the second is left
\* as it is, whichever of the two the analysis belongs to.
C15_FirstMatchUpdated ==
  [][(ev'.op = "weakness" /\ ev'.ok) =>
       \E k \in 1..Len(tasks), content \in WeaknessReplies :
         /\ tasks[k].item = ev'.item
         /\ tasks' = Remove(tasks, k)
         /\ LET items == Hist(tasks[k].sess)
                hits == Matches(items, ev'.item)
            IN /\ hits # {}
               /\ Len(Hist(store')) = Len(items)
               /\ \A i \in 1..Len(items) :
                    IF i \in hits /\ \A j \in hits : i <= j
                    THEN Hist(store')[i] =
                           [items[i] EXCEPT !.weakness = Str(Trim(content))]
                    ELSE Hist(store')[i] = items[i]]_vars

\* the analysis of the second of two equal exchanges has completed: the first
\* item carries a weakness, the second still the placeholder
C15_Witness ==
  /\ ev.op = "weakness"
  /\ ev.ok
  /\ Len(Hist(store)) = 2
  /\ Matches(Hist(store), ev.item) = {1, 2}
  /\ ev.item.answeredAt = Hist(store)[2].answeredAt
  /\ ev.item.answeredAt # Hist(store)[1].answeredAt
  /\ Hist(store)[1].weakness # Analyzing
  /\ Hist(store)[2].weakness = Analyzing

\* C16: once the time is up, no next-question request issues a
\* question-generation call or sets a new current_question.
C16_NoQuestionAfterTimeUp ==
  [][/\ (NextQuestionArrives /\ Started(store) /\ TimeIsUp(store, now)) =>
          /\ ev'.call = NoCall
          /\ req' = Idle
          /\ store'.current_question = store.current_question
     /\ (req # Idle /\ req.op = "next-question" /\ req' = Idle
           /\ TimeIsUp(req.sess, now)) =>
          store'.current_question = store.current_question]_vars

\* C17: the completion of a weakness analysis, its save included, changes
\* the weakness of one history item and nothing else: the history's length,
\* the other items, current_question, profile, start_time and
\* duration_seconds stay as the most recent request left them.
C17_OnlyTheWeakness ==
  [][(ev'.op = "weakness" /\ ev'.ok) =>
       /\ [store' EXCEPT !.history = store.history] = store
       /\ Len(Hist(store')) = Len(Hist(store))
       /\ \A i \in 1..Len(Hist(store)) :
            [Hist(store')[i] EXCEPT !.weakness = Hist(store)[i].weakness] = Hist(store)[i]
       /\ Cardinality({i \in 1..Len(Hist(store)) : Hist(store')[i] # Hist(store)[i]}) <= 1]_vars

\* C18: once a submit-answer has returned time_up = true, and until another
\* start, every next-question returns {end: true}, no question is generated
\* and the history does not grow.
C18_EndIsFinal ==
  [][(timeUp /\ ~Succeeded(ev', "start")) =>
       /\ NextQuestionArrives => ev' = Response("next-question", 200, [end |-> TRUE])
       /\ ev'.call.kind # "generate"
       /\ Len(Hist(store')) <= Len(Hist(store))]_vars

\* C19: when every weakness call completes successfully and no start
\* intervenes, every item of the history ends with a weakness that is not the
\* placeholder but the result of an analysis: once no analysis and no request
\* is outstanding, no item carries 'Analyzing...'.
C19_EveryItemAnalysed ==
  (tasks = <<>> /\ req = Idle) =>
    \A i \in 1..Len(Hist(store)) :
      /\ Hist(store)[i].weakness # Analyzing
      /\ \E content \in WeaknessReplies : Hist(store)[i].weakness = Str(Trim(content))

\* the requested duration, in tenths of a minute
Tenths(x) == LET n == ToNumber(x) IN IF n.t = "num" THEN 10 * n.v ELSE n.v

\* C20: after every successful start duration_seconds is strictly positive
\* and 60 times the requested duration in minutes, so that the time is not
\* up at start_time.
C20_DurationInSeconds ==
  [][Succeeded(ev', "start") =>
       \A body \in TimedBodies, r \in OneDraw :
         Start(body, r, MaxStarts) =>
           /\ store'.duration_seconds.t = "num"
           /\ store'.duration_seconds.v > 0
           /\ 10 * store'.duration_seconds.v = 60 * Tenths(body.duration)
           /\ ~TimeIsUp(store', store'.start_time.v)]_vars

====
